---- MODULE Spec2Model ----
(***************************************************************************)
(* Event clustering of live streams (backend/server.py): create_stream,    *)
(* assign_event_for_stream and end_stream over the stream store and the     *)
(* event store.                                                             *)
(*                                                                         *)
(* Units.  Coordinates are integers in microdegrees (1e-6 degree), times   *)
(* are integers in minutes, distances are integers in centimetres.         *)
(* Stream ids and event ids (uuid4 in the code: fresh, never reused) are    *)
(* the position of the record in its collection; no record is ever         *)
(* deleted, so the position identifies the record.                          *)
(***************************************************************************)
EXTENDS Integers, Sequences, FiniteSets, TLC

VARIABLES streams, events, now, resp, cr, en

vars == <<streams, events, now, resp, cr, en>>

---------------------------------------------------------------------------
(* Bounds of the model *)

MaxStreams == 3

MaxCalls == 2

MaxTimeC == 10

MaxTime == 20

TickMinutes == 10

(* create_stream calls made on top of the four that built the seeded store *)
MaxSeedCreates == 1

(* concurrent create_stream calls made on the seeded store *)
MaxSeedCalls == 1

---------------------------------------------------------------------------
(* Program constants *)

None == -1

WindowMinutes == 10

PrefilterRadiusM == 60

NeighborRadiusM == 50

EventRadiusM == 50

MetersPerDegree == 111320

StatusOk == 200

StatusNotFound == 404

---------------------------------------------------------------------------
(* The coordinates streams are created at.                                 *)
(*   1  (41.0082,   28.9784)    stream A of the spec's scenario            *)
(*   2  (41.00825,  28.97845)   stream B of the scenario, 6.97 m from 1    *)
(*   3  (41.008695, 28.9784)    55.04 m from 1, 49.66 m from 2             *)
(*   4  (0.0,  179.9999)        just west of the antimeridian              *)
(*   5  (0.0, -179.9999)        just east of it, 22.24 m from 4            *)

Places == 1 .. 5

PlaceLat == <<41008200, 41008250, 41008695, 0, 0>>

PlaceLng == <<28978400, 28978450, 28978400, 179999900, -179999900>>

PlaceOf(lat, lng) == CHOOSE p \in Places : PlaceLat[p] = lat /\ PlaceLng[p] = lng

(* haversine_distance_m evaluated on every pair of Places, in centimetres  *)
(* rounded down (R = 6371000.0, math.sin/cos/atan2 of the source).         *)
HaversineCm ==
  << <<0,          696,        5504,       1460105841, 1460106924>>,
     <<696,        0,          4965,       1460105146, 1460106228>>,
     <<5504,       4965,       0,          1460101635, 1460102717>>,
     <<1460105841, 1460105146, 1460101635, 0,          2223>>,
     <<1460106924, 1460106228, 1460102717, 2223,       0>> >>

haversine_distance_m(lat1, lon1, lat2, lon2) ==
  HaversineCm[PlaceOf(lat1, lon1)][PlaceOf(lat2, lon2)]

(* math.cos(math.radians(lat)) scaled by 1e5, rounded down. *)
CosE5(lat) == IF lat = 0 THEN 100000 ELSE 75464

Max(a, b) == IF a >= b THEN a ELSE b

(* The clamp 0.00001 of the cosine is 1 at the scale 1e5. *)
bbox_from_center(lat, lng, radius_m) ==
  LET lat_delta == (radius_m * 1000000) \div MetersPerDegree
      lng_delta == (radius_m * 10000000)
                     \div (((MetersPerDegree \div 10) * Max(1, CosE5(lat))) \div 1000)
  IN  [min_lat |-> lat - lat_delta, min_lng |-> lng - lng_delta,
       max_lat |-> lat + lat_delta, max_lng |-> lng + lng_delta]

---------------------------------------------------------------------------
(* Records of the two stores *)

(* Lines 316-320, for a payload of user 1 with the default privacy_mode     *)
(* (line 73).                                                              *)
StreamDoc(sid, p, t) ==
  [id |-> sid, user_id |-> 1, lat |-> PlaceLat[p], lng |-> PlaceLng[p], started_at |-> t,
   ended_at |-> None, event_id |-> None, status |-> "live", privacy_mode |-> "exact",
   playback_url |-> None]

(* Lines 316-320, for any user_id and privacy_mode of the payload. *)
StreamDocOf(sid, user, p, mode, t) ==
  [StreamDoc(sid, p, t) EXCEPT !.user_id = user, !.privacy_mode = mode]

SumLat(S, ids) ==
  LET f[X \in SUBSET ids] ==
        IF X = {} THEN 0 ELSE LET i == CHOOSE j \in X : TRUE
                              IN  S[i].lat + f[X \ {i}]
  IN  f[ids]

SumLng(S, ids) ==
  LET f[X \in SUBSET ids] ==
        IF X = {} THEN 0 ELSE LET i == CHOOSE j \in X : TRUE
                              IN  S[i].lng + f[X \ {i}]
  IN  f[ids]

(* sum(p['lat'] ...) / len(...): the mean, in whole microdegrees. *)
Mean(total, n) == IF total >= 0 THEN total \div n ELSE -((-total) \div n)

(* stream_count taken from the store before the participants are pointed   *)
(* at the new event, instead of len(participants). *)
EventDocCountFromStore(S, eid, participants, t) ==
  [id |-> eid,
   centroid_lat |-> Mean(SumLat(S, participants), Cardinality(participants)),
   centroid_lng |-> Mean(SumLng(S, participants), Cardinality(participants)),
   radius_meters |-> EventRadiusM, created_at |-> t, ended_at |-> None,
   stream_count |-> Cardinality({ i \in participants : S[i].event_id = eid }),
   status |-> "live"]

(* The document stored under another fresh id than the one returned. *)
EventDocOtherId(S, eid, participants, t) ==
  [id |-> eid + 1,
   centroid_lat |-> Mean(SumLat(S, participants), Cardinality(participants)),
   centroid_lng |-> Mean(SumLng(S, participants), Cardinality(participants)),
   radius_meters |-> EventRadiusM, created_at |-> t, ended_at |-> None,
   stream_count |-> Cardinality(participants), status |-> "live"]

EventDoc(S, eid, participants, t) ==
  [id |-> eid,
   centroid_lat |-> Mean(SumLat(S, participants), Cardinality(participants)),
   centroid_lng |-> Mean(SumLng(S, participants), Cardinality(participants)),
   radius_meters |-> EventRadiusM, created_at |-> t, ended_at |-> None,
   stream_count |-> Cardinality(participants), status |-> "live"]

---------------------------------------------------------------------------
(* assign_event_for_stream, step by step *)

(* The find without its started_at condition: any live stream in the box. *)
CandidatesNoWindow(S, sid, t) ==
  LET b == bbox_from_center(S[sid].lat, S[sid].lng, PrefilterRadiusM)
  IN  { i \in 1 .. Len(S) :
          /\ S[i].status = "live"
          /\ S[i].lat >= b.min_lat /\ S[i].lat <= b.max_lat
          /\ S[i].lng >= b.min_lng /\ S[i].lng <= b.max_lng
          /\ i # sid }

(* The find without its status filter: ended streams are candidates too. *)
CandidatesAnyStatus(S, sid, t) ==
  LET b == bbox_from_center(S[sid].lat, S[sid].lng, PrefilterRadiusM)
  IN  { i \in 1 .. Len(S) :
          /\ S[i].started_at >= t - WindowMinutes
          /\ S[i].lat >= b.min_lat /\ S[i].lat <= b.max_lat
          /\ S[i].lng >= b.min_lng /\ S[i].lng <= b.max_lng
          /\ i # sid }

(* The find of lines 264-268: live, started in the window, inside the      *)
(* bounding box, and not the new stream itself.  (to_list(100) caps the    *)
(* result at 100 documents, above any store of this model.)                *)
Candidates(S, sid, t) ==
  LET b == bbox_from_center(S[sid].lat, S[sid].lng, PrefilterRadiusM)
  IN  { i \in 1 .. Len(S) :
          /\ S[i].status = "live"
          /\ S[i].started_at >= t - WindowMinutes
          /\ S[i].lat >= b.min_lat /\ S[i].lat <= b.max_lat
          /\ S[i].lng >= b.min_lng /\ S[i].lng <= b.max_lng
          /\ i # sid }

(* The bounding box taken for the neighbor test: no distance check. *)
IsNearBoxOnly(S, sid, i) == TRUE

(* Lines 270-274: the authoritative test, d <= 50.0. *)
IsNear(S, sid, i) ==
  haversine_distance_m(S[sid].lat, S[sid].lng, S[i].lat, S[i].lng)
    <= NeighborRadiusM * 100

Nearby(S, sid, t) == { i \in Candidates(S, sid, t) : IsNear(S, sid, i) }

(* A scan that reads a key the neighbors do not have: it never finds an id. *)
JoinChoicesNeverFound(S, nearby) == {}

(* Lines 279-283: the event ids a scan of nearby can stop at.  The find    *)
(* has no sort, so the store may return the neighbors in any order: every  *)
(* neighbor that carries an event id can be the first one.                 *)
JoinChoices(S, nearby) ==
  { S[i].event_id : i \in { j \in nearby : S[j].event_id # None } }

(* An id that is not fresh: the id of the newest event is used again. *)
NewEventIdReused(E) == IF Len(E) = 0 THEN 1 ELSE Len(E)

(* Line 286: str(uuid.uuid4()), an id no other event has. *)
NewEventId(E) == Len(E) + 1

(* update_many / update_one of event_id (lines 297, 299, 325) *)
SetEventId(S, ids, eid) ==
  [ i \in 1 .. Len(S) |-> IF i \in ids THEN [S[i] EXCEPT !.event_id = eid] ELSE S[i] ]

(* A join that repoints the neighbors as the create path does. *)
JoinWriteAll(S, sid, nearby, eid) == SetEventId(S, {sid} \cup nearby, eid)

(* Line 299: the join path writes the event id to the new stream only. *)
JoinWrite(S, sid, nearby, eid) == SetEventId(S, {sid}, eid)

(* The find of line 300 without its status condition. *)
LiveMembersAnyStatus(S, eid) ==
  { i \in 1 .. Len(S) : S[i].event_id = eid }

(* Line 300: the live streams that reference the event. *)
LiveMembers(S, eid) ==
  { i \in 1 .. Len(S) : S[i].event_id = eid /\ S[i].status = "live" }

(* The count patched by one instead of recomputed from the live members. *)
RecomputeEventIncrement(E, S, eid, members) ==
  IF members # {}
    THEN [E EXCEPT ![eid].centroid_lat = Mean(SumLat(S, members), Cardinality(members)),
                   ![eid].centroid_lng = Mean(SumLng(S, members), Cardinality(members)),
                   ![eid].stream_count = @ + 1]
    ELSE E

(* Lines 301-306: the aggregate is rewritten only if the find returned     *)
(* something. *)
RecomputeEvent(E, S, eid, members) ==
  IF members # {}
    THEN [E EXCEPT ![eid].centroid_lat = Mean(SumLat(S, members), Cardinality(members)),
                   ![eid].centroid_lng = Mean(SumLng(S, members), Cardinality(members)),
                   ![eid].stream_count = Cardinality(members)]
    ELSE E

(* The write of line 325 without its guard "if event_id". *)
FinalWriteAlways(S, sid, eid) == SetEventId(S, {sid}, eid)

(* create_stream, lines 323-325: the returned id is written to the new    *)
(* stream once more, only if there is one. *)
FinalWrite(S, sid, eid) == IF eid # None THEN SetEventId(S, {sid}, eid) ELSE S

---------------------------------------------------------------------------
(* end_stream, step by step *)

(* The update of line 374 filtered on the id alone. *)
EndMatchesAnyStatus(S, sid) == sid \in 1 .. Len(S)

(* Line 374: update_one({'id': id, 'status': 'live'}, ...) matches? *)
EndMatches(S, sid) == sid \in 1 .. Len(S) /\ S[sid].status = "live"

(* The update of line 374 setting started_at as well. *)
MarkStreamEndedRestamped(S, sid, t) ==
  [S EXCEPT ![sid].status = "ended", ![sid].ended_at = t, ![sid].started_at = t]

MarkStreamEnded(S, sid, t) ==
  [S EXCEPT ![sid].status = "ended", ![sid].ended_at = t]

(* The count of line 380 without its status filter. *)
LiveCountAnyStatus(S, eid) ==
  Cardinality({ i \in 1 .. Len(S) : S[i].event_id = eid })

(* The count filtered on a key no stream document has: nothing matches. *)
LiveCountNoMatch(S, eid) == 0

(* Line 380 *)
LiveCount(S, eid) == Cardinality(LiveMembers(S, eid))

(* Line 382 *)
MarkEventEnded(E, eid, t) ==
  [E EXCEPT ![eid].status = "ended", ![eid].ended_at = t]

---------------------------------------------------------------------------
(* The handlers run one at a time.  resp is the response of the handler   *)
(* that finished last: its HTTP status and, for create_stream, the         *)
(* event_id of the StreamOut it returned.                                  *)

Init ==
  /\ streams = <<>>
  /\ events = <<>>
  /\ now = 0
  /\ resp = [code |-> StatusOk, event_id |-> None]
  /\ cr = <<>>
  /\ en = <<>>

(* POST /streams: create_stream with assign_event_for_stream inlined. *)
DoCreateStreamOf(user, p, mode) ==
  /\ LET sid == Len(streams) + 1
         S1 == Append(streams, StreamDocOf(sid, user, p, mode, now))
         nearby == Nearby(S1, sid, now)
         joins == JoinChoices(S1, nearby)
     IN  IF nearby = {}
           THEN /\ streams' = FinalWrite(S1, sid, None)
                /\ events' = events
                /\ resp' = [code |-> StatusOk, event_id |-> None]
           ELSE IF joins = {}
             THEN LET eid == NewEventId(events)
                      participants == {sid} \cup nearby
                  IN  /\ events' = Append(events, EventDoc(S1, eid, participants, now))
                      /\ streams' = FinalWrite(SetEventId(S1, participants, eid), sid, eid)
                      /\ resp' = [code |-> StatusOk, event_id |-> eid]
             ELSE \E eid \in joins :
                    LET S2 == JoinWrite(S1, sid, nearby, eid)
                    IN  /\ events' = RecomputeEvent(events, S2, eid, LiveMembers(S2, eid))
                        /\ streams' = FinalWrite(S2, sid, eid)
                        /\ resp' = [code |-> StatusOk, event_id |-> eid]
  /\ UNCHANGED <<now, cr, en>>

(* The payload of the specifications without privacy: user 1, mode exact. *)
DoCreateStream(p) == DoCreateStreamOf(1, p, "exact")

(* The store of this specification holds at most MaxStreams streams. *)
CreateStream(p) ==
  /\ Len(streams) < MaxStreams
  /\ DoCreateStream(p)

(* POST /streams/{stream_id}/end *)
EndStream(sid) ==
  /\ IF ~EndMatches(streams, sid)
       THEN /\ UNCHANGED <<streams, events>>
            /\ resp' = [code |-> StatusNotFound, event_id |-> None]
       ELSE LET S1 == MarkStreamEnded(streams, sid, now)
                ev_id == S1[sid].event_id
            IN  /\ streams' = S1
                /\ events' = IF ev_id # None /\ LiveCount(S1, ev_id) = 0
                               THEN MarkEventEnded(events, ev_id, now)
                               ELSE events
                /\ resp' = [code |-> StatusOk, event_id |-> None]
  /\ UNCHANGED <<now, cr, en>>

(* datetime.utcnow() moves on between requests. *)
Tick ==
  /\ now + TickMinutes <= MaxTime
  /\ now' = now + TickMinutes
  /\ UNCHANGED <<streams, events, resp, cr, en>>

Next ==
  \/ \E p \in Places : CreateStream(p)
  \/ \E sid \in 1 .. MaxStreams + 1 : EndStream(sid)
  \/ Tick

Spec == Init /\ [][Next]_vars

---------------------------------------------------------------------------
(* The handlers run concurrently: one action per store operation (per      *)
(* await).  cr[sid] is the create_stream call that inserted stream sid,    *)
(* en[sid] the end_stream call that matched it; both hold the call's       *)
(* position and its local variables.  An end_stream call can name any      *)
(* stream of the store, also one whose create_stream has not returned yet  *)
(* (GET /streams/live lists it from its insert on).                        *)

CallOf(pc, branch, nearby, ev, t) ==
  [pc |-> pc, branch |-> branch, nearby |-> nearby, event_id |-> ev, now |-> t,
   event_streams |-> {}]

EndOf(pc, ev, t, matched) ==
  [pc |-> pc, ev_id |-> ev, now |-> t, matched |-> matched]

(* Lines 313-321 *)
DoCInsert(p) ==
  /\ streams' = Append(streams, StreamDoc(Len(streams) + 1, p, now))
  /\ cr' = Append(cr, CallOf("query", "", {}, None, None))
  /\ en' = Append(en, EndOf("idle", None, None, 0))
  /\ UNCHANGED <<events, now, resp>>

(* At most MaxCalls create_stream calls are made. *)
CInsert(p) ==
  /\ Len(streams) < MaxCalls
  /\ DoCInsert(p)

(* Lines 258-283: the neighbor query and the decision taken on its result. *)
CQuery(sid) ==
  /\ cr[sid].pc = "query"
  /\ LET nearby == Nearby(streams, sid, now)
         joins == JoinChoices(streams, nearby)
     IN  IF nearby = {}
           THEN cr' = [cr EXCEPT ![sid] = CallOf("respond", "alone", {}, None, now)]
           ELSE IF joins = {}
             THEN cr' = [cr EXCEPT ![sid] = CallOf("insert_event", "create", nearby, None, now)]
             ELSE \E eid \in joins :
                    cr' = [cr EXCEPT ![sid] = CallOf("join_set", "join", nearby, eid, now)]
  /\ UNCHANGED <<streams, events, now, resp, en>>

(* Lines 286-295 *)
CInsertEvent(sid) ==
  /\ cr[sid].pc = "insert_event"
  /\ LET eid == NewEventId(events)
     IN  /\ events' = Append(events, EventDoc(streams, eid, {sid} \cup cr[sid].nearby,
                                               cr[sid].now))
         /\ cr' = [cr EXCEPT ![sid].pc = "update_many", ![sid].event_id = eid]
  /\ UNCHANGED <<streams, now, resp, en>>

(* Lines 296-297 *)
CUpdateMany(sid) ==
  /\ cr[sid].pc = "update_many"
  /\ streams' = SetEventId(streams, {sid} \cup cr[sid].nearby, cr[sid].event_id)
  /\ cr' = [cr EXCEPT ![sid].pc = "respond"]
  /\ UNCHANGED <<events, now, resp, en>>

(* Line 299 *)
CJoinSet(sid) ==
  /\ cr[sid].pc = "join_set"
  /\ streams' = JoinWrite(streams, sid, cr[sid].nearby, cr[sid].event_id)
  /\ cr' = [cr EXCEPT ![sid].pc = "join_find"]
  /\ UNCHANGED <<events, now, resp, en>>

(* Line 300 *)
CJoinFind(sid) ==
  /\ cr[sid].pc = "join_find"
  /\ cr' = [cr EXCEPT ![sid].pc = "join_update",
                      ![sid].event_streams = LiveMembers(streams, cr[sid].event_id)]
  /\ UNCHANGED <<streams, events, now, resp, en>>

(* Lines 301-306 *)
CJoinUpdate(sid) ==
  /\ cr[sid].pc = "join_update"
  /\ events' = RecomputeEvent(events, streams, cr[sid].event_id, cr[sid].event_streams)
  /\ cr' = [cr EXCEPT ![sid].pc = "respond"]
  /\ UNCHANGED <<streams, now, resp, en>>

(* Lines 322-332 *)
CRespond(sid) ==
  /\ cr[sid].pc = "respond"
  /\ streams' = FinalWrite(streams, sid, cr[sid].event_id)
  /\ resp' = [code |-> StatusOk, event_id |-> cr[sid].event_id]
  /\ cr' = [cr EXCEPT ![sid].pc = "done"]
  /\ UNCHANGED <<events, now, en>>

(* Lines 373-376: the filtered update_one is one atomic store operation. *)
EUpdate(sid) ==
  /\ IF ~EndMatches(streams, sid)
       THEN /\ resp' = [code |-> StatusNotFound, event_id |-> None]
            /\ UNCHANGED <<streams, en>>
       ELSE /\ streams' = MarkStreamEnded(streams, sid, now)
            /\ en' = [en EXCEPT ![sid] = EndOf("find", None, now, en[sid].matched + 1)]
            /\ UNCHANGED resp
  /\ UNCHANGED <<events, now, cr>>

(* Lines 377-378 *)
EFind(sid) ==
  /\ en[sid].pc = "find"
  /\ IF streams[sid].event_id # None
       THEN /\ en' = [en EXCEPT ![sid].pc = "count", ![sid].ev_id = streams[sid].event_id]
            /\ UNCHANGED resp
       ELSE /\ en' = [en EXCEPT ![sid].pc = "done"]
            /\ resp' = [code |-> StatusOk, event_id |-> None]
  /\ UNCHANGED <<streams, events, now, cr>>

(* Lines 380-381 *)
ECount(sid) ==
  /\ en[sid].pc = "count"
  /\ IF LiveCount(streams, en[sid].ev_id) = 0
       THEN /\ en' = [en EXCEPT ![sid].pc = "mark"]
            /\ UNCHANGED resp
       ELSE /\ en' = [en EXCEPT ![sid].pc = "done"]
            /\ resp' = [code |-> StatusOk, event_id |-> None]
  /\ UNCHANGED <<streams, events, now, cr>>

(* Lines 382-383 *)
EMark(sid) ==
  /\ en[sid].pc = "mark"
  /\ events' = MarkEventEnded(events, en[sid].ev_id, en[sid].now)
  /\ en' = [en EXCEPT ![sid].pc = "done"]
  /\ resp' = [code |-> StatusOk, event_id |-> None]
  /\ UNCHANGED <<streams, now, cr>>

(* The clock of the concurrent runs. *)
TickC ==
  /\ now + TickMinutes <= MaxTimeC
  /\ now' = now + TickMinutes
  /\ UNCHANGED <<streams, events, resp, cr, en>>

NextC ==
  \/ \E p \in Places : CInsert(p)
  \/ \E sid \in 1 .. Len(streams) : CQuery(sid)
  \/ \E sid \in 1 .. Len(streams) : CInsertEvent(sid)
  \/ \E sid \in 1 .. Len(streams) : CUpdateMany(sid)
  \/ \E sid \in 1 .. Len(streams) : CJoinSet(sid)
  \/ \E sid \in 1 .. Len(streams) : CJoinFind(sid)
  \/ \E sid \in 1 .. Len(streams) : CJoinUpdate(sid)
  \/ \E sid \in 1 .. Len(streams) : CRespond(sid)
  \/ \E sid \in 1 .. MaxCalls + 1 : EUpdate(sid)
  \/ \E sid \in 1 .. Len(streams) : EFind(sid)
  \/ \E sid \in 1 .. Len(streams) : ECount(sid)
  \/ \E sid \in 1 .. Len(streams) : EMark(sid)
  \/ TickC

SpecC == Init /\ [][NextC]_vars

(* No call is in flight. *)
Quiescent ==
  /\ \A sid \in 1 .. Len(cr) : cr[sid].pc = "done"
  /\ \A sid \in 1 .. Len(en) : en[sid].pc \in {"idle", "done"}

---------------------------------------------------------------------------
(* The handlers run concurrently on a store that already holds an event.   *)
(* The store is the one three create_stream calls, run to their end one    *)
(* after the other at minute 0, leave: two at place 1 (event 1) and one at *)
(* place 3, 55 m away, which found no neighbor and has no event.           *)

SeedStreamsC ==
  << [StreamDoc(1, 1, 0) EXCEPT !.event_id = 1],
     [StreamDoc(2, 1, 0) EXCEPT !.event_id = 1],
     StreamDoc(3, 3, 0) >>

InitSeededC ==
  /\ streams = SeedStreamsC
  /\ events = << EventDoc(SeedStreamsC, 1, {1, 2}, 0) >>
  /\ now = 0
  /\ resp = [code |-> StatusOk, event_id |-> None]
  /\ cr = << CallOf("done", "alone", {}, None, 0),
             CallOf("done", "create", {1}, 1, 0),
             CallOf("done", "alone", {}, None, 0) >>
  /\ en = << EndOf("idle", None, None, 0),
             EndOf("idle", None, None, 0),
             EndOf("idle", None, None, 0) >>

CInsertSeeded(p) ==
  /\ Len(streams) < Len(SeedStreamsC) + MaxSeedCalls
  /\ DoCInsert(p)

NextSeededC ==
  \/ \E p \in Places : CInsertSeeded(p)
  \/ \E sid \in 1 .. Len(streams) : CQuery(sid)
  \/ \E sid \in 1 .. Len(streams) : CInsertEvent(sid)
  \/ \E sid \in 1 .. Len(streams) : CUpdateMany(sid)
  \/ \E sid \in 1 .. Len(streams) : CJoinSet(sid)
  \/ \E sid \in 1 .. Len(streams) : CJoinFind(sid)
  \/ \E sid \in 1 .. Len(streams) : CJoinUpdate(sid)
  \/ \E sid \in 1 .. Len(streams) : CRespond(sid)
  \/ \E sid \in 1 .. Len(streams) + 1 : EUpdate(sid)
  \/ \E sid \in 1 .. Len(streams) : EFind(sid)
  \/ \E sid \in 1 .. Len(streams) : ECount(sid)
  \/ \E sid \in 1 .. Len(streams) : EMark(sid)
  \/ TickC

SpecSeededC == InitSeededC /\ [][NextSeededC]_vars

---------------------------------------------------------------------------
(* The handlers run one at a time and the store can fail.  The find of     *)
(* lines 264-268 raises, nothing in assign_event_for_stream or             *)
(* create_stream catches it, and the framework answers 500.  The insert of *)
(* line 321 has been acknowledged by then and nothing undoes it.           *)

StatusServerError == 500

(* A handler that deletes the stream again when clustering fails. *)
StoreAfterFailedQueryUndone(S, doc) == S

(* Lines 321-322: the stream document is in the store when the find of     *)
(* assign_event_for_stream raises. *)
StoreAfterFailedQuery(S, doc) == Append(S, doc)

CreateStreamQueryFails(p) ==
  /\ Len(streams) < MaxStreams
  /\ streams' = StoreAfterFailedQuery(streams, StreamDoc(Len(streams) + 1, p, now))
  /\ events' = events
  /\ resp' = [code |-> StatusServerError, event_id |-> None]
  /\ UNCHANGED <<now, cr, en>>

NextF ==
  \/ Next
  \/ \E p \in Places : CreateStreamQueryFails(p)

SpecF == Init /\ [][NextF]_vars

---------------------------------------------------------------------------
(* The handlers run one at a time on a store that already holds two        *)
(* events.  The store is the one four create_stream calls leave: two at    *)
(* place 1 at minute 0 (event 1), then two at place 3 at minute t2         *)
(* (event 2; place 3 is 55 m from place 1, outside the neighbor radius).   *)

SeedStreams(t2) ==
  << [StreamDoc(1, 1, 0) EXCEPT !.event_id = 1],
     [StreamDoc(2, 1, 0) EXCEPT !.event_id = 1],
     [StreamDoc(3, 3, t2) EXCEPT !.event_id = 2],
     [StreamDoc(4, 3, t2) EXCEPT !.event_id = 2] >>

SeedEvents(t2) ==
  << EventDoc(SeedStreams(t2), 1, {1, 2}, 0),
     EventDoc(SeedStreams(t2), 2, {3, 4}, t2) >>

InitSeeded ==
  \E t2 \in {0, TickMinutes} :
    /\ streams = SeedStreams(t2)
    /\ events = SeedEvents(t2)
    /\ now = t2
    /\ resp = [code |-> StatusOk, event_id |-> 2]
    /\ cr = <<>>
    /\ en = <<>>

CreateStreamSeeded(p) ==
  /\ Len(streams) < Len(SeedStreams(0)) + MaxSeedCreates
  /\ DoCreateStream(p)

NextSeeded ==
  \/ \E p \in Places : CreateStreamSeeded(p)
  \/ \E sid \in 1 .. Len(streams) + 1 : EndStream(sid)
  \/ Tick

SpecSeeded == InitSeeded /\ [][NextSeeded]_vars

---------------------------------------------------------------------------
(* The read handlers: GET /events/live, /events/range, /events/{id} *)

StatusBadRequest == 400

(* timedelta(hours=1), in minutes *)
DefaultRangeMinutes == 60

(* A corner parameter "lat,lng": left out, unparsable, or two floats. *)
CornerNone == [kind |-> "none", lat |-> 0, lng |-> 0]

CornerBad == [kind |-> "bad", lat |-> 0, lng |-> 0]

Corner(lat, lng) == [kind |-> "ok", lat |-> lat, lng |-> lng]

(* Corners around the places: box A holds places 1 and 2 but not place 3,  *)
(* the wide box holds places 1 to 3.                                       *)
SwA == Corner(41008000, 28978000)

NeA == Corner(41008400, 28979000)

SwWide == Corner(41000000, 28900000)

NeWide == Corner(41100000, 29000000)

(* The ne/sw parameters a request can carry: none, one corner only, box A, *)
(* the wide box, box A with its corners swapped, an unparsable corner.     *)
BoxInputs ==
  { [ne |-> CornerNone, sw |-> CornerNone],
    [ne |-> NeA,        sw |-> CornerNone],
    [ne |-> NeA,        sw |-> SwA],
    [ne |-> NeWide,     sw |-> SwWide],
    [ne |-> SwA,        sw |-> NeA],
    [ne |-> CornerBad,  sw |-> SwA] }

(* A from/to parameter: left out, unparsable, or an ISO 8601 string with   *)
(* a wall-clock time and a UTC offset, both in minutes ("Z" is offset 0,   *)
(* "+00:10" is offset 10).  The instant it names is wall - offset.         *)
TsNone == [kind |-> "none", wall |-> 0, offset |-> 0]

TsBad == [kind |-> "bad", wall |-> 0, offset |-> 0]

Ts(wall, offset) == [kind |-> "ok", wall |-> wall, offset |-> offset]

TimeInputs ==
  {TsNone, TsBad}
    \cup { Ts(w, o) : w \in { t \in 0 .. MaxTime : t % TickMinutes = 0 },
                      o \in {0, TickMinutes} }

(* parse_iso, lines 61-65: fromisoformat reads the offset and              *)
(* replace(tzinfo=None) drops it without shifting the time: the result is  *)
(* the wall-clock time of the string.                                      *)
parse_iso(ts) == ts.wall

(* "if ne and sw" *)
BoxGiven(b) == b.ne.kind # "none" /\ b.sw.kind # "none"

(* The two float() list comprehensions succeed. *)
BoxParses(b) == b.ne.kind = "ok" /\ b.sw.kind = "ok"

(* centroid_lat in [sw_lat, ne_lat] and centroid_lng in [sw_lng, ne_lng] *)
InBox(ev, b) ==
  /\ ev.centroid_lat >= b.sw.lat /\ ev.centroid_lat <= b.ne.lat
  /\ ev.centroid_lng >= b.sw.lng /\ ev.centroid_lng <= b.ne.lng

BoxMatches(ev, b) == BoxGiven(b) => InBox(ev, b)

BadRequest(op, detail) ==
  [op |-> op, code |-> StatusBadRequest, detail |-> detail, items |-> {}]

(* The query without its status condition. *)
IsLiveEventAnyStatus(ev) == TRUE

(* query = { 'status': 'live' } *)
IsLiveEvent(ev) == ev.status = "live"

(* get_live_events, lines 386-406.  The result is the set of documents the *)
(* find matches (to_list(500) is above any store of this model).           *)
get_live_events(E, b) ==
  IF BoxGiven(b) /\ ~BoxParses(b)
    THEN BadRequest("events_live", "Invalid bbox params")
    ELSE [op |-> "events_live", code |-> StatusOk, detail |-> "",
          items |-> { E[e] : e \in { i \in 1 .. Len(E) :
                                       IsLiveEvent(E[i]) /\ BoxMatches(E[i], b) } }]

(* "if start > end" *)
RangeRejected(start, end) == start > end

(* 'created_at': { '$gte': start, '$lte': end } *)
CreatedInRange(ev, start, end) == ev.created_at >= start /\ ev.created_at <= end

(* get_events_range, lines 409-436.  The result is the set of documents    *)
(* the find matches; the sort by created_at and to_list(1000) do not       *)
(* change which documents it holds in a store of this model.               *)
get_events_range(E, t, from_ts, to_ts, b) ==
  LET start == IF from_ts.kind # "none" THEN parse_iso(from_ts) ELSE t - DefaultRangeMinutes
      end == IF to_ts.kind # "none" THEN parse_iso(to_ts) ELSE t
  IN  IF from_ts.kind = "bad" \/ to_ts.kind = "bad"
        THEN BadRequest("events_range", "Invalid datetime")
        ELSE IF RangeRejected(start, end)
          THEN BadRequest("events_range", "from must be <= to")
          ELSE IF BoxGiven(b) /\ ~BoxParses(b)
            THEN BadRequest("events_range", "Invalid bbox params")
            ELSE [op |-> "events_range", code |-> StatusOk, detail |-> "",
                  items |-> { E[e] : e \in { i \in 1 .. Len(E) :
                                               /\ CreatedInRange(E[i], start, end)
                                               /\ BoxMatches(E[i], b) } }]

(* The fields of a stream item that do not depend on mask_location. *)
StreamItem(d) ==
  [id |-> d.id, started_at |-> d.started_at, ended_at |-> d.ended_at, status |-> d.status]

(* The stream find restricted to live streams. *)
DetailStreamsLiveOnly(S, event_id) ==
  { i \in 1 .. Len(S) : S[i].event_id = event_id /\ S[i].status = "live" }

(* db.streams.find({ 'event_id': event_id }) *)
DetailStreams(S, event_id) == { i \in 1 .. Len(S) : S[i].event_id = event_id }

(* get_event_detail, lines 439-461 (to_list(200) is above any store of     *)
(* this model).                                                            *)
get_event_detail(E, S, event_id) ==
  IF ~ \E e \in 1 .. Len(E) : E[e].id = event_id
    THEN [op |-> "event_detail", code |-> StatusNotFound, detail |-> "Event not found"]
    ELSE LET e == CHOOSE x \in 1 .. Len(E) : E[x].id = event_id
         IN  [op |-> "event_detail", code |-> StatusOk, detail |-> "",
              event |-> E[e],
              streams |-> { StreamItem(S[i]) : i \in DetailStreams(S, event_id) }]

GetLiveEvents(b) ==
  /\ resp' = get_live_events(events, b)
  /\ UNCHANGED <<streams, events, now, cr, en>>

GetEventsRange(from_ts, to_ts, b) ==
  /\ resp' = get_events_range(events, now, from_ts, to_ts, b)
  /\ UNCHANGED <<streams, events, now, cr, en>>

GetEventDetail(event_id) ==
  /\ resp' = get_event_detail(events, streams, event_id)
  /\ UNCHANGED <<streams, events, now, cr, en>>

(* Reads, ends and the clock, one at a time, on the store with two events. *)
NextQ ==
  \/ \E sid \in 1 .. Len(streams) + 1 : EndStream(sid)
  \/ Tick
  \/ \E b \in BoxInputs : GetLiveEvents(b)
  \/ \E from_ts \in TimeInputs, to_ts \in TimeInputs, b \in BoxInputs :
       GetEventsRange(from_ts, to_ts, b)
  \/ \E event_id \in 1 .. Len(events) + 1 : GetEventDetail(event_id)

SpecQ == InitSeeded /\ [][NextQ]_vars

---------------------------------------------------------------------------
(* mask_location, lines 49-58 *)

LocationPrivacy == {"exact", "masked_100m", "masked_1km"}

(* uuid.uuid4().int % 1000000 *)
RndModulus == 1000000

(* angle = (rnd % 360) * pi / 180, in degrees *)
AngleDeg(rnd) == rnd % 360

(* dist = (rnd % 1000) / 1000.0 * radius, the fraction in thousandths *)
FractionMilli(rnd) == rnd % 1000

(* The coordinates mask_location is applied to: the five Places and        *)
(*   6  (89.99, 28.9784)   1.1 km from the north pole                      *)
MaskPointLat == <<41008200, 41008250, 41008695, 0, 0, 89990000>>

MaskPointLng == <<28978400, 28978450, 28978400, 179999900, -179999900, 28978400>>

MaskPointOf(lat, lng) ==
  CHOOSE k \in 1 .. Len(MaskPointLat) : MaskPointLat[k] = lat /\ MaskPointLng[k] = lng

(* The draws rnd the model takes: fraction 0, fraction 0.5, and fraction   *)
(* 0.999 at the angles 279, 199, 119, 39, 319, 239, 159, 79, 359 degrees;  *)
(* the last one is the largest value of rnd.                               *)
MaskDraws == <<0, 500, 999, 1999, 2999, 3999, 4999, 5999, 6999, 7999, 8999, 999999>>

DrawIndex(rnd) == CHOOSE k \in 1 .. Len(MaskDraws) : MaskDraws[k] = rnd

ModeIndex(mode) == IF mode = "masked_100m" THEN 1 ELSE 2

(* mask_location(lat, lng, mode) of the source evaluated with the draw rnd *)
(* on every point, masked mode and draw above: MaskTable[point][mode][draw]*)
(* is <<lat + dlat, lng + dlng, d>> with the coordinates in microdegrees   *)
(* and d = haversine_distance_m(lat, lng, lat + dlat, lng + dlng) of the   *)
(* source in centimetres, all rounded down.                                *)
MaskTable ==
  << << << <<41008200, 28978400, 0>>, <<41008488, 28977944, 4994>>, <<41007313, 28978586, 9978>>,
          <<41007907, 28977275, 9978>>, <<41008984, 28977823, 9978>>, <<41008764, 28979324, 9978>>,
          <<41007611, 28979297, 9978>>, <<41007430, 28977787, 9978>>, <<41008521, 28977289, 9978>>,
          <<41009080, 28978626, 9978>>, <<41008184, 28979589, 9978>>, <<41007313, 28978586, 9978>> >>,
        << <<41008200, 28978400, 0>>, <<41011087, 28973840, 49943>>, <<40999336, 28980260, 99787>>,
          <<41005278, 28967155, 99789>>, <<41016048, 28972634, 99786>>, <<41013847, 28987642, 99785>>,
          <<41002312, 28987375, 99790>>, <<41000507, 28972275, 99789>>, <<41011416, 28967297, 99785>>,
          <<41017009, 28980669, 99787>>, <<41008043, 28990290, 99787>>, <<40999336, 28980260, 99787>> >> >>,
     << << <<41008250, 28978450, 0>>, <<41008538, 28977994, 4994>>, <<41007363, 28978636, 9978>>,
          <<41007957, 28977325, 9978>>, <<41009034, 28977873, 9978>>, <<41008814, 28979374, 9978>>,
          <<41007661, 28979347, 9978>>, <<41007480, 28977837, 9978>>, <<41008571, 28977339, 9978>>,
          <<41009130, 28978676, 9978>>, <<41008234, 28979639, 9978>>, <<41007363, 28978636, 9978>> >>,
        << <<41008250, 28978450, 0>>, <<41011137, 28973890, 49943>>, <<40999386, 28980310, 99787>>,
          <<41005328, 28967205, 99789>>, <<41016098, 28972684, 99786>>, <<41013897, 28987692, 99785>>,
          <<41002362, 28987425, 99790>>, <<41000557, 28972324, 99789>>, <<41011466, 28967347, 99785>>,
          <<41017059, 28980719, 99787>>, <<41008093, 28990340, 99787>>, <<40999386, 28980310, 99787>> >> >>,
     << << <<41008695, 28978400, 0>>, <<41008983, 28977944, 4994>>, <<41007808, 28978586, 9978>>,
          <<41008402, 28977275, 9978>>, <<41009479, 28977823, 9978>>, <<41009259, 28979324, 9978>>,
          <<41008106, 28979297, 9978>>, <<41007925, 28977787, 9978>>, <<41009016, 28977289, 9978>>,
          <<41009575, 28978626, 9978>>, <<41008679, 28979589, 9978>>, <<41007808, 28978586, 9978>> >>,
        << <<41008695, 28978400, 0>>, <<41011582, 28973840, 49943>>, <<40999831, 28980260, 99787>>,
          <<41005773, 28967155, 99789>>, <<41016543, 28972634, 99786>>, <<41014342, 28987642, 99785>>,
          <<41002807, 28987375, 99790>>, <<41001002, 28972274, 99789>>, <<41011911, 28967297, 99785>>,
          <<41017504, 28980669, 99787>>, <<41008538, 28990290, 99787>>, <<40999831, 28980260, 99787>> >> >>,
     << << <<0, 179999900, 0>>, <<288, 179999555, 4994>>, <<-887, 180000040, 9978>>,
          <<-293, 179999051, 9978>>, <<784, 179999464, 9978>>, <<564, 180000597, 9978>>,
          <<-589, 180000577, 9978>>, <<-770, 179999437, 9978>>, <<321, 179999062, 9978>>,
          <<880, 180000071, 9978>>, <<-16, 180000797, 9978>>, <<-887, 180000040, 9978>> >>,
        << <<0, 179999900, 0>>, <<2887, 179996459, 49943>>, <<-8864, 180001303, 99787>>,
          <<-2922, 179991414, 99787>>, <<7848, 179995549, 99787>>, <<5647, 180006874, 99787>>,
          <<-5888, 180006672, 99787>>, <<-7693, 179995277, 99787>>, <<3216, 179991521, 99787>>,
          <<8809, 180001612, 99787>>, <<-157, 180008872, 99787>>, <<-8864, 180001303, 99787>> >> >>,
     << << <<0, -179999900, 0>>, <<288, -180000245, 4994>>, <<-887, -179999760, 9978>>,
          <<-293, -180000749, 9978>>, <<784, -180000336, 9978>>, <<564, -179999203, 9978>>,
          <<-589, -179999223, 9978>>, <<-770, -180000363, 9978>>, <<321, -180000738, 9978>>,
          <<880, -179999729, 9978>>, <<-16, -179999003, 9978>>, <<-887, -179999760, 9978>> >>,
        << <<0, -179999900, 0>>, <<2887, -180003341, 49943>>, <<-8864, -179998497, 99787>>,
          <<-2922, -180008386, 99787>>, <<7848, -180004251, 99787>>, <<5647, -179992926, 99787>>,
          <<-5888, -179993128, 99787>>, <<-7693, -180004523, 99787>>, <<3216, -180008279, 99787>>,
          <<8809, -179998188, 99787>>, <<-157, -179990928, 99787>>, <<-8864, -179998497, 99787>> >> >>,
     << << <<89990000, 28978400, 0>>, <<89990288, 27007006, 4951>>, <<89989113, 29782754, 9989>>,
          <<89989707, 24116735, 10105>>, <<89990784, 26485607, 9886>>, <<89990564, 32974326, 9805>>,
          <<89989411, 32858963, 10143>>, <<89989230, 26330178, 10079>>, <<89990321, 24178118, 9835>>,
          <<89990880, 29959501, 9962>>, <<89989984, 34119413, 9983>>, <<89989113, 29782754, 9989>> >>,
        << <<89990000, 28978400, 0>>, <<89992887, 9264461, 45404>>, <<89981136, 37021942, 100860>>,
          <<89987078, -19638246, 109017>>, <<89997848, 4050473, 90070>>, <<89995647, 68937667, 80354>>,
          <<89984112, 67784034, 113831>>, <<89982307, 2496187, 109118>>, <<89993216, -19024411, 82644>>,
          <<89998809, 38789411, 98173>>, <<89989843, 80388538, 97227>>, <<89981136, 37021942, 100860>> >> >> >>

mask_location(lat, lng, mode, rnd) ==
  IF mode = "exact"
    THEN [lat |-> lat, lng |-> lng]
    ELSE LET row == MaskTable[MaskPointOf(lat, lng)][ModeIndex(mode)][DrawIndex(rnd)]
         IN  [lat |-> row[1], lng |-> row[2]]

(* haversine_distance_m between a point and what mask_location made of it, *)
(* in centimetres *)
MaskedDistanceCm(lat, lng, mode, rnd) ==
  IF mode = "exact"
    THEN 0
    ELSE MaskTable[MaskPointOf(lat, lng)][ModeIndex(mode)][DrawIndex(rnd)][3]

(* One call of mask_location: resp holds the arguments and the draw, then  *)
(* the result.  Mode exact returns at line 51, before any draw is made.    *)
InitMask ==
  /\ streams = <<>>
  /\ events = <<>>
  /\ now = 0
  /\ cr = <<>>
  /\ en = <<>>
  /\ \E k \in 1 .. Len(MaskPointLat), mode \in LocationPrivacy, d \in 1 .. Len(MaskDraws) :
       resp = [op |-> "mask_call", lat |-> MaskPointLat[k], lng |-> MaskPointLng[k],
               mode |-> mode, rnd |-> IF mode = "exact" THEN None ELSE MaskDraws[d]]

MaskLocation ==
  /\ resp.op = "mask_call"
  /\ LET out == mask_location(resp.lat, resp.lng, resp.mode, resp.rnd)
     IN  resp' = [op |-> "mask_result", lat |-> resp.lat, lng |-> resp.lng,
                  mode |-> resp.mode, rnd |-> resp.rnd,
                  angle |-> IF resp.mode = "exact" THEN None ELSE AngleDeg(resp.rnd),
                  fraction |-> IF resp.mode = "exact" THEN None
                                                      ELSE FractionMilli(resp.rnd),
                  out_lat |-> out.lat, out_lng |-> out.lng]
  /\ UNCHANGED <<streams, events, now, cr, en>>

NextMask == MaskLocation

SpecMask == InitMask /\ [][NextMask]_vars

---------------------------------------------------------------------------
(* The handlers run one at a time with payloads of every privacy mode.     *)

CreateStreamAs(p, mode) ==
  /\ Len(streams) < MaxStreams
  /\ DoCreateStreamOf(1, p, mode)

NextP ==
  \/ \E p \in Places, mode \in LocationPrivacy : CreateStreamAs(p, mode)
  \/ \E sid \in 1 .. MaxStreams + 1 : EndStream(sid)
  \/ TickC

SpecP == Init /\ [][NextP]_vars

---------------------------------------------------------------------------
(* Every handler, one at a time, with payloads of every privacy mode.      *)

MaxStreamsR == 2

Users == {1, 2}

Urls == {"u1"}

(* The places of the payloads of this specification: two places 7 m apart. *)
PlacesR == {1, 2}

(* The draws of uuid4 made by the reads. *)
ReadDraws == {MaskDraws[3], MaskDraws[12]}

(* The boxes and times given to the reads of this specification. *)
BoxInputsR == { b \in BoxInputs : b.ne \in {CornerNone, CornerBad} \/ b.sw = SwA }

TimeInputsR == {TsNone, TsBad, Ts(TickMinutes, 0)}

(* Lines 358-366: one item of the answer, its coordinates masked by the    *)
(* privacy mode of the stream.                                             *)
LiveStreamItem(d, rnd) ==
  LET out == mask_location(d.lat, d.lng, d.privacy_mode, rnd)
  IN  [id |-> d.id, user_id |-> d.user_id, lat |-> out.lat, lng |-> out.lng,
       started_at |-> d.started_at, ended_at |-> d.ended_at, event_id |-> d.event_id,
       status |-> d.status, privacy_mode |-> d.privacy_mode,
       playback_url |-> d.playback_url]

(* Lines 349 and 354: the query on the stored documents. *)
LiveStreamMatches(d, t, b) ==
  /\ d.status = "live"
  /\ d.started_at <= t
  /\ BoxGiven(b) => /\ d.lat >= b.sw.lat /\ d.lat <= b.ne.lat
                    /\ d.lng >= b.sw.lng /\ d.lng <= b.ne.lng

(* get_live_streams, lines 343-368; draw[i] is the uuid4 draw made for     *)
(* stream i.                                                               *)
get_live_streams(S, t, b, draw) ==
  IF BoxGiven(b) /\ ~BoxParses(b)
    THEN BadRequest("streams_live", "Invalid bbox params")
    ELSE [op |-> "streams_live", code |-> StatusOk, detail |-> "",
          items |-> { LiveStreamItem(S[i], draw[i]) :
                        i \in { j \in 1 .. Len(S) : LiveStreamMatches(S[j], t, b) } }]

GetLiveStreams(b, draw) ==
  /\ resp' = get_live_streams(streams, now, b, draw)
  /\ UNCHANGED <<streams, events, now, cr, en>>

(* attach_playback, lines 335-340 *)
AttachPlayback(stream_id, playback_url) ==
  /\ IF stream_id \in 1 .. Len(streams)
       THEN /\ streams' = [streams EXCEPT ![stream_id].playback_url = playback_url]
            /\ resp' = [op |-> "attach_playback", code |-> StatusOk]
       ELSE /\ streams' = streams
            /\ resp' = [op |-> "attach_playback", code |-> StatusNotFound]
  /\ UNCHANGED <<events, now, cr, en>>

CreateStreamR(user, p, mode) ==
  /\ Len(streams) < MaxStreamsR
  /\ DoCreateStreamOf(user, p, mode)

NextR ==
  \/ \E user \in Users, p \in PlacesR, mode \in LocationPrivacy : CreateStreamR(user, p, mode)
  \/ \E sid \in 1 .. MaxStreamsR + 1 : EndStream(sid)
  \/ TickC
  \/ \E sid \in 1 .. MaxStreamsR + 1, url \in Urls : AttachPlayback(sid, url)
  \/ \E b \in BoxInputsR, draw \in [1 .. Len(streams) -> ReadDraws] : GetLiveStreams(b, draw)
  \/ \E b \in BoxInputsR : GetLiveEvents(b)
  \/ \E from_ts \in TimeInputsR, to_ts \in TimeInputsR, b \in BoxInputsR :
       GetEventsRange(from_ts, to_ts, b)
  \/ \E event_id \in 1 .. Len(events) + 1 : GetEventDetail(event_id)

SpecR == Init /\ [][NextR]_vars

---------------------------------------------------------------------------
(* Properties of the handlers run one at a time (Spec) *)

DistanceCm(a, b) == haversine_distance_m(a.lat, a.lng, b.lat, b.lng)

LiveRefs(e) ==
  { i \in 1 .. Len(streams) : streams[i].status = "live" /\ streams[i].event_id = e }

(* C1: after any sequence of creates and ends, every live event has        *)
(* stream_count equal to the number of live streams that reference it.     *)
C1_StreamCountIsLiveCount ==
  \A e \in 1 .. Len(events) :
    events[e].status = "live" => events[e].stream_count = Cardinality(LiveRefs(e))

(* C2: ending the only remaining live stream that references event E sets  *)
(* E.status to ended and E.ended_at to a time; ending a stream whose event *)
(* has another live referencing stream leaves E.status live.               *)
C2_EndClosesEventIffLast ==
  [][ \A sid \in 1 .. Len(streams) :
        ( /\ streams[sid].status = "live"
          /\ streams'[sid].status = "ended"
          /\ streams[sid].event_id # None )
        => LET e == streams[sid].event_id
           IN  IF LiveRefs(e) = {sid}
                 THEN events'[e].status = "ended" /\ events'[e].ended_at # None
                 ELSE events'[e].status = "live" ]_vars

(* An event was closed by the end of its last member, after the end of     *)
(* another member had left it live. *)
C2_Witness ==
  \E e \in 1 .. Len(events) :
    /\ events[e].status = "ended"
    /\ events[e].ended_at # None
    /\ Cardinality({ i \in 1 .. Len(streams) :
                       streams[i].event_id = e /\ streams[i].status = "ended" }) >= 2

(* C3 as stated: two streams more than 50 m apart that started within 10   *)
(* minutes of each other never carry the same non-null event_id.           *)
C3_FarApartNeverShare ==
  \A i, j \in 1 .. Len(streams) :
    ( /\ i # j
      /\ DistanceCm(streams[i], streams[j]) > NeighborRadiusM * 100
      /\ streams[i].started_at - streams[j].started_at <= WindowMinutes
      /\ streams[j].started_at - streams[i].started_at <= WindowMinutes
      /\ streams[i].event_id # None )
    => streams[i].event_id # streams[j].event_id

(* The streams linked to stream i by a chain of streams of the store in    *)
(* which each is within 50 m of the next. *)
RECURSIVE Chain(_)
Chain(X) ==
  LET Y == X \cup { k \in 1 .. Len(streams) :
                      \E x \in X : DistanceCm(streams[x], streams[k]) <= NeighborRadiusM * 100 }
  IN  IF Y = X THEN X ELSE Chain(Y)

(* C3, amended: two streams carry the same non-null event_id only if a     *)
(* chain of streams, each within 50 m of the next, links them; two streams *)
(* more than 50 m apart with no such chain between them never share one.   *)
C3_ShareOnlyAlongChain ==
  \A i, j \in 1 .. Len(streams) :
    ( streams[i].event_id # None /\ streams[i].event_id = streams[j].event_id )
    => j \in Chain({i})

(* Two streams 55 m apart, started within the window, no chain between     *)
(* them, one of them clustered with a third stream: they share no event.   *)
C3_Witness ==
  \E i, j \in 1 .. Len(streams) :
    /\ DistanceCm(streams[i], streams[j]) > NeighborRadiusM * 100
    /\ DistanceCm(streams[i], streams[j]) <= PrefilterRadiusM * 100
    /\ streams[j].started_at - streams[i].started_at <= WindowMinutes
    /\ streams[i].started_at <= streams[j].started_at
    /\ j \notin Chain({i})
    /\ streams[i].event_id # None
    /\ streams[i].event_id # streams[j].event_id

(* C4: when S2 is created within 50 m of a live stream S1 that started     *)
(* less than 10 minutes ago, the call returns a non-null event id, and S1  *)
(* carries that id after the call.                                         *)
C4_NearbyPairShares ==
  [][ Len(streams') = Len(streams) + 1
      => LET s2 == Len(streams')
         IN  \A s1 \in 1 .. Len(streams) :
               ( /\ streams[s1].status = "live"
                 /\ streams[s1].started_at > now - WindowMinutes
                 /\ DistanceCm(streams[s1], streams'[s2]) <= NeighborRadiusM * 100 )
               => ( /\ resp'.event_id # None
                    /\ resp'.event_id = streams'[s1].event_id ) ]_vars

(* C8: end_stream succeeds if and only if a stream with that id exists and *)
(* is live, and then ends it; otherwise it answers NotFound and changes    *)
(* neither store, so a second call on the same id answers NotFound.        *)
C8_EndSucceedsIffLive ==
  [][ \A sid \in 1 .. MaxStreams + 1 :
        EndStream(sid)
        => LET live == sid \in 1 .. Len(streams) /\ streams[sid].status = "live"
           IN  /\ resp'.code = StatusOk <=> live
               /\ live => streams'[sid].status = "ended"
               /\ ~live => ( /\ resp'.code = StatusNotFound
                             /\ streams' = streams
                             /\ events' = events ) ]_vars

(* A NotFound answer with an ended stream in the store. *)
C8_Witness ==
  /\ resp.code = StatusNotFound
  /\ \E sid \in 1 .. Len(streams) : streams[sid].status = "ended"

---------------------------------------------------------------------------
(* Properties of the handlers run concurrently (SpecC) *)

(* C5: whenever no call is in flight, every live event is referenced by    *)
(* at least one live stream.                                               *)
C5_LiveEventHasLiveMember ==
  Quiescent => \A e \in 1 .. Len(events) :
                 events[e].status = "live" => LiveRefs(e) # {}

(* Two create_stream calls that each found the other's stream as a         *)
(* neighbor without an event id and each inserted an event. *)
BothCreated(a, b) ==
  /\ a # b
  /\ cr[a].branch = "create" /\ cr[b].branch = "create"
  /\ b \in cr[a].nearby /\ a \in cr[b].nearby
  /\ cr[a].event_id # None /\ cr[b].event_id # None

(* C6: when two create_stream calls for streams within 50 m of each other  *)
(* both take the create path, two distinct event records are persisted     *)
(* for the one pair of streams.                                            *)
C6_RaceMakesTwoEvents ==
  \A a, b \in 1 .. Len(cr) :
    BothCreated(a, b)
    => /\ cr[a].event_id # cr[b].event_id
       /\ cr[a].event_id \in 1 .. Len(events)
       /\ cr[b].event_id \in 1 .. Len(events)
       /\ events[cr[a].event_id].id # events[cr[b].event_id].id

(* Both calls have returned and both events are live. *)
C6_Witness ==
  \E a, b \in 1 .. Len(cr) :
    /\ BothCreated(a, b)
    /\ cr[a].pc = "done" /\ cr[b].pc = "done"
    /\ DistanceCm(streams[a], streams[b]) <= NeighborRadiusM * 100
    /\ events[cr[a].event_id].status = "live"
    /\ events[cr[b].event_id].status = "live"

(* C7: a stream's status only moves live -> ended, ended_at is non-null    *)
(* exactly when the status is ended, ended_at once set never changes, and  *)
(* exactly one end_stream call performs the transition.                    *)
C7_StreamEndsOnce ==
  /\ [] ( \A sid \in 1 .. Len(streams) :
            /\ streams[sid].ended_at # None <=> streams[sid].status = "ended"
            /\ streams[sid].status \in {"live", "ended"}
            /\ en[sid].matched = IF streams[sid].status = "ended" THEN 1 ELSE 0 )
  /\ [][ \A sid \in 1 .. Len(streams) :
           streams[sid].status = "ended"
           => /\ streams'[sid].status = "ended"
              /\ streams'[sid].ended_at = streams[sid].ended_at ]_vars

(* A second end_stream call on an ended stream, at a later time, answered  *)
(* NotFound. *)
C7_Witness ==
  \E sid \in 1 .. Len(streams) :
    /\ streams[sid].status = "ended"
    /\ streams[sid].ended_at < now
    /\ resp.code = StatusNotFound

(* C9: no event record ever has stream_count = 0.                          *)
C9_StreamCountPositive ==
  \A e \in 1 .. Len(events) : events[e].stream_count >= 1

(* A join whose find of the event's live streams came back empty, and an   *)
(* event inserted by the create path. *)
C9_Witness ==
  /\ \E sid \in 1 .. Len(cr) :
       /\ cr[sid].branch = "join"
       /\ cr[sid].pc = "done"
       /\ cr[sid].event_streams = {}
  /\ \E e \in 1 .. Len(events) : events[e].stream_count >= 2

(* C10: a stream's event_id, once non-null, never becomes null again.      *)
C10_EventIdNeverReset ==
  [][ \A sid \in 1 .. Len(streams) :
        streams[sid].event_id # None => streams'[sid].event_id # None ]_vars

(* A stream whose own create_stream call found no neighbor and returned no *)
(* event, and which another call's update_many pointed at an event. *)
C10_Witness ==
  \E sid \in 1 .. Len(streams) :
    /\ cr[sid].branch = "alone"
    /\ cr[sid].pc = "done"
    /\ streams[sid].event_id # None

(* C11: an event's ended_at is written at most once: once an event is      *)
(* marked ended, no later step overwrites its ended_at.                    *)
C11_EventEndedAtWrittenOnce ==
  [][ \A e \in 1 .. Len(events) :
        events[e].status = "ended"
        => /\ events'[e].status = "ended"
           /\ events'[e].ended_at = events[e].ended_at ]_vars

---------------------------------------------------------------------------
(* The three paths of create_stream, one call at a time (Spec) *)

(* The step appended a stream: it is a create_stream call. *)
IsCreateStep == Len(streams') = Len(streams) + 1

(* The event ids the neighbors found by the call carried before it. *)
NeighborEventIds(nearby) ==
  { streams[i].event_id : i \in { j \in nearby : streams[j].event_id # None } }

(* C12: when create finds at least one neighbor and no neighbor carries an *)
(* event id, it inserts exactly one event (live, radius 50, ended_at null, *)
(* stream_count = 1 + number of neighbors, at least 2); the new stream and *)
(* every neighbor carry the new id afterwards and the call returns it.     *)
C12_CreatePathMakesOneEvent ==
  [][ IsCreateStep =>
        LET sid == Len(streams')
            nearby == Nearby(streams', sid, now)
        IN  (nearby # {} /\ NeighborEventIds(nearby) = {})
            => /\ Len(events') = Len(events) + 1
               /\ SubSeq(events', 1, Len(events)) = events
               /\ LET ev == events'[Len(events')]
                  IN  /\ \A e \in 1 .. Len(events) : events[e].id # ev.id
                      /\ ev.status = "live"
                      /\ ev.radius_meters = 50
                      /\ ev.ended_at = None
                      /\ ev.stream_count = 1 + Cardinality(nearby)
                      /\ ev.stream_count >= 2
                      /\ \A i \in {sid} \cup nearby : streams'[i].event_id = ev.id
                      /\ resp'.code = StatusOk
                      /\ resp'.event_id = ev.id ]_vars

(* The third stream was created within 50 m of two streams that are more   *)
(* than 50 m apart and had no event: one event of three streams.           *)
C12_Witness ==
  /\ Len(streams) = 3
  /\ Len(events) = 1
  /\ DistanceCm(streams[1], streams[2]) > NeighborRadiusM * 100
  /\ events[1].stream_count = 3
  /\ \A i \in 1 .. 3 : streams[i].event_id = 1
  /\ resp.event_id = 1

(* C13: when a neighbor carries an event id, create makes no new event,    *)
(* returns an id carried by a neighbor, sets the event_id of the new       *)
(* stream only, and leaves the stream_count of that event equal to the     *)
(* number of live streams that reference it.                               *)
C13_JoinPathJoinsNeighborEvent ==
  [][ IsCreateStep =>
        LET sid == Len(streams')
            nearby == Nearby(streams', sid, now)
        IN  NeighborEventIds(nearby) # {}
            => /\ Len(events') = Len(events)
               /\ resp'.code = StatusOk
               /\ resp'.event_id \in NeighborEventIds(nearby)
               /\ streams'[sid].event_id = resp'.event_id
               /\ \A i \in 1 .. Len(streams) : streams'[i] = streams[i]
               /\ events'[resp'.event_id].stream_count =
                    Cardinality({ i \in 1 .. Len(streams') :
                                    /\ streams'[i].status = "live"
                                    /\ streams'[i].event_id = resp'.event_id }) ]_vars

(* A stream joined an event one of whose members had ended: three streams  *)
(* reference the event, two of them live, and the count is 2.              *)
C13_Witness ==
  \E e \in 1 .. Len(events) :
    /\ resp.code = StatusOk
    /\ resp.event_id = e
    /\ Cardinality({ i \in 1 .. Len(streams) : streams[i].event_id = e }) = 3
    /\ Cardinality(LiveRefs(e)) = 2
    /\ events[e].stream_count = 2

(* C14: when no other live stream started within the last 10 minutes lies  *)
(* within 50 m of the new stream, or the call finds none, the new stream   *)
(* stays live with event_id null, the call returns no event id, no event   *)
(* record is created or modified and no other stream record is changed.    *)
C14_AlonePathTouchesNothing ==
  [][ IsCreateStep =>
        LET sid == Len(streams')
        IN  ( \/ \A i \in 1 .. Len(streams) :
                    ~ ( /\ streams[i].status = "live"
                        /\ streams[i].started_at >= now - 10
                        /\ DistanceCm(streams'[sid], streams[i]) <= 50 * 100 )
              \/ Nearby(streams', sid, now) = {} )
            => /\ streams'[sid].status = "live"
               /\ streams'[sid].event_id = None
               /\ resp'.code = StatusOk
               /\ resp'.event_id = None
               /\ events' = events
               /\ \A i \in 1 .. Len(streams) : streams'[i] = streams[i] ]_vars

(* The newest stream was created within 50 m of a stream that had ended or *)
(* had started more than 10 minutes before, and both are without event.    *)
C14_Witness ==
  /\ Len(streams) >= 2
  /\ resp.code = StatusOk
  /\ resp.event_id = None
  /\ LET sid == Len(streams)
     IN  /\ streams[sid].status = "live"
         /\ streams[sid].event_id = None
         /\ \E i \in 1 .. sid - 1 :
              /\ DistanceCm(streams[sid], streams[i]) <= 50 * 100
              /\ streams[i].event_id = None
              /\ \/ streams[i].status = "ended" /\ streams[i].ended_at <= streams[sid].started_at
                 \/ streams[sid].started_at - streams[i].started_at > 10

(* C16: ending a stream whose event still has another live stream that     *)
(* references it leaves the event record unchanged: status, ended_at,      *)
(* stream_count and centroid.                                              *)
C16_EndOfNonLastLeavesEvent ==
  [][ \A sid \in 1 .. Len(streams) :
        ( /\ streams[sid].status = "live"
          /\ streams'[sid].status = "ended"
          /\ streams[sid].event_id # None
          /\ LiveRefs(streams[sid].event_id) \ {sid} # {} )
        => events'[streams[sid].event_id] = events[streams[sid].event_id] ]_vars

(* A member of a live event has ended while another member is live. *)
C16_Witness ==
  \E e \in 1 .. Len(events) :
    /\ events[e].status = "live"
    /\ events[e].ended_at = None
    /\ LiveRefs(e) # {}
    /\ \E i \in 1 .. Len(streams) :
         streams[i].event_id = e /\ streams[i].status = "ended"
    /\ resp = [code |-> StatusOk, event_id |-> None]

---------------------------------------------------------------------------
(* create_stream next to two events (SpecSeeded) *)

(* C15: when the neighbors carry two different event ids, create assigns   *)
(* the new stream to exactly one of them, makes no new event, and leaves   *)
(* the record of every other event and the event_id of every stream that   *)
(* existed before unchanged.                                               *)
C15_TwoEventsJoinOneNoMerge ==
  [][ IsCreateStep =>
        LET sid == Len(streams')
            ids == NeighborEventIds(Nearby(streams', sid, now))
        IN  Cardinality(ids) >= 2
            => /\ Len(events') = Len(events)
               /\ resp'.event_id \in ids
               /\ streams'[sid].event_id = resp'.event_id
               /\ \A e \in 1 .. Len(events) :
                    e # resp'.event_id => events'[e] = events[e]
               /\ \A i \in 1 .. Len(streams) :
                    streams'[i].event_id = streams[i].event_id ]_vars

(* The fifth stream joined event 2 although a member of event 1, live and  *)
(* started within the window, is within 50 m of it; both events are kept.  *)
C15_Witness ==
  /\ Len(streams) = 5
  /\ Len(events) = 2
  /\ streams[5].event_id = 2
  /\ resp.event_id = 2
  /\ streams[1].event_id = 1
  /\ streams[1].status = "live"
  /\ streams[5].started_at - streams[1].started_at <= 10
  /\ DistanceCm(streams[5], streams[1]) <= 50 * 100
  /\ events[1].status = "live"
  /\ events[1].stream_count = 2

---------------------------------------------------------------------------
(* create_stream when the neighbor query fails (SpecF) *)

(* C17: when the neighbor query fails with a store error, the call fails,  *)
(* the stream it inserted stays in the store with status live and event_id *)
(* null, no event record is created or changed, and no other stream is     *)
(* changed.                                                                *)
C17_FailedQueryLeavesStreamAlone ==
  [][ ( /\ resp'.code = 500
        /\ <<streams, events, resp>>' # <<streams, events, resp>> )
      => /\ Len(streams') = Len(streams) + 1
         /\ streams'[Len(streams')].status = "live"
         /\ streams'[Len(streams')].event_id = None
         /\ resp'.event_id = None
         /\ events' = events
         /\ \A i \in 1 .. Len(streams) : streams'[i] = streams[i] ]_vars

(* The call that failed left its stream within 50 m of a live stream that  *)
(* started in the window, and neither has an event.                        *)
C17_Witness ==
  /\ resp.code = 500
  /\ Len(streams) >= 2
  /\ Len(events) = 0
  /\ LET sid == Len(streams)
     IN  /\ streams[sid].status = "live"
         /\ streams[sid].event_id = None
         /\ \E i \in 1 .. sid - 1 :
              /\ streams[i].status = "live"
              /\ streams[i].event_id = None
              /\ streams[sid].started_at - streams[i].started_at <= 10
              /\ DistanceCm(streams[sid], streams[i]) <= 50 * 100

---------------------------------------------------------------------------
(* The read handlers (SpecQ) *)

IsQueryResult(op) == "op" \in DOMAIN resp /\ resp.op = op

(* The rectangle of a request whose two corners are given and parse. *)
InRectangle(ev, b) ==
  /\ b.sw.lat <= ev.centroid_lat /\ ev.centroid_lat <= b.ne.lat
  /\ b.sw.lng <= ev.centroid_lng /\ ev.centroid_lng <= b.ne.lng

WellFormedBox(b) == b.ne.kind \in {"none", "ok"} /\ b.sw.kind \in {"none", "ok"}

HasBox(b) == b.ne.kind = "ok" /\ b.sw.kind = "ok"

(* C18: GET /events/live returns exactly the events whose stored status is *)
(* live, restricted to those whose centroid lies in the box when one is    *)
(* given; once the last live member of an event has ended, no later result *)
(* holds the event: it is ended from that step on and an ended event stays *)
(* ended and out of every result.                                          *)
C18_LiveEventsExactlyLive ==
  [][ /\ \A b \in BoxInputs :
           (GetLiveEvents(b) /\ WellFormedBox(b))
           => /\ resp'.code = 200
              /\ resp'.items =
                   { events[e] : e \in { i \in 1 .. Len(events) :
                                           /\ events[i].status = "live"
                                           /\ HasBox(b) => InRectangle(events[i], b) } }
              /\ streams' = streams
              /\ events' = events
      /\ \A e \in 1 .. Len(events) :
           ( \/ events[e].status = "ended"
             \/ /\ LiveRefs(e) # {}
                /\ \A i \in LiveRefs(e) : streams'[i].status = "ended" )
           => /\ events'[e].status = "ended"
              /\ \A b \in BoxInputs :
                   WellFormedBox(b) => events'[e] \notin get_live_events(events', b).items
    ]_vars

(* The list of live events was returned after the two members of event 1   *)
(* had ended: the result holds event 2 and not event 1.                    *)
C18_Witness ==
  /\ IsQueryResult("events_live")
  /\ resp.code = 200
  /\ events[2].status = "live"
  /\ events[1].status = "ended"
  /\ LiveRefs(1) = {}
  /\ streams[1].status = "ended" /\ streams[2].status = "ended"
  /\ resp.items = {events[2]}

(* C19: GET /events/range fails with 'from must be <= to' exactly when the *)
(* instant from is later than the instant to (equal instants are           *)
(* accepted); otherwise it returns exactly the events, of any status,      *)
(* whose created_at lies in [from, to] and whose centroid lies in the box  *)
(* when one is given; it changes no stored record.                         *)
C19_RangeFailsIffFromAfterTo ==
  [][ \A f \in TimeInputs, t \in TimeInputs, b \in BoxInputs :
        ( /\ GetEventsRange(f, t, b)
          /\ f.kind # "bad" /\ t.kind # "bad"
          /\ WellFormedBox(b) )
        => LET from == IF f.kind = "none" THEN now - 60 ELSE f.wall - f.offset
               to == IF t.kind = "none" THEN now ELSE t.wall - t.offset
           IN  /\ (resp'.code = 400 /\ resp'.detail = "from must be <= to") <=> from > to
               /\ from <= to
                  => /\ resp'.code = 200
                     /\ resp'.items =
                          { events[e] : e \in { i \in 1 .. Len(events) :
                              /\ from <= events[i].created_at
                              /\ events[i].created_at <= to
                              /\ HasBox(b) => InRectangle(events[i], b) } }
               /\ streams' = streams
               /\ events' = events ]_vars

(* C20: GET /events/{id} fails with 404 if and only if no event record has *)
(* that id; otherwise it returns the stored event record together with     *)
(* every stream whose event_id is that id, ended streams included.         *)
C20_EventDetailListsAllMembers ==
  [][ \A event_id \in 1 .. Len(events) + 1 :
        GetEventDetail(event_id)
        => /\ resp'.code = 404 <=> ~ \E e \in 1 .. Len(events) : events[e].id = event_id
           /\ (\E e \in 1 .. Len(events) : events[e].id = event_id)
              => /\ resp'.code = 200
                 /\ resp'.event.id = event_id
                 /\ resp'.event \in { events[e] : e \in 1 .. Len(events) }
                 /\ { it.id : it \in resp'.streams } =
                      { i \in 1 .. Len(streams) : streams[i].event_id = event_id }
                 /\ \A it \in resp'.streams :
                      /\ it.status = streams[it.id].status
                      /\ it.ended_at = streams[it.id].ended_at
                      /\ it.started_at = streams[it.id].started_at
           /\ streams' = streams
           /\ events' = events ]_vars

(* The detail of an ended event was returned with its two former members,  *)
(* both ended.                                                             *)
C20_Witness ==
  /\ IsQueryResult("event_detail")
  /\ resp.code = 200
  /\ resp.event.status = "ended"
  /\ Cardinality(resp.streams) = 2
  /\ \A it \in resp.streams : it.status = "ended"

---------------------------------------------------------------------------
(* Writes of event_id *)

(* C22: under any interleaving of creates and ends, no step sets or        *)
(* changes the event_id of a stream whose status is ended.                 *)
C22_EventIdWrittenOnlyWhileLive ==
  [][ \A i \in 1 .. Len(streams) :
        streams[i].status = "ended"
        => streams'[i].event_id = streams[i].event_id ]_vars

(* C24: when every live stream within 50 m of the new stream started more  *)
(* than 10 minutes before the call, and there is such a stream, the new    *)
(* stream stays unassigned and no event is created or updated, also when   *)
(* the older stream is a member of a live event.                           *)
C24_ExpiredNeighborIsNoNeighbor ==
  [][ IsCreateStep =>
        LET sid == Len(streams')
            close == { i \in 1 .. Len(streams) :
                         /\ streams[i].status = "live"
                         /\ DistanceCm(streams'[sid], streams[i]) <= 50 * 100 }
        IN  (close # {} /\ \A i \in close : now - streams[i].started_at > 10)
            => /\ streams'[sid].event_id = None
               /\ streams'[sid].status = "live"
               /\ resp'.event_id = None
               /\ events' = events
               /\ \A i \in 1 .. Len(streams) : streams'[i] = streams[i] ]_vars

(* The third stream was created 20 minutes after two live members of the   *)
(* live event 1, within 50 m of both, and has no event.                    *)
C24_Witness ==
  /\ Len(streams) = 3
  /\ Len(events) = 1
  /\ events[1].status = "live"
  /\ streams[3].event_id = None
  /\ streams[3].status = "live"
  /\ \A i \in {1, 2} :
       /\ streams[i].status = "live"
       /\ streams[i].event_id = 1
       /\ streams[3].started_at - streams[i].started_at = 20
       /\ DistanceCm(streams[3], streams[i]) <= 50 * 100

(* C28: under any interleaving, every non-null event_id stored on a stream *)
(* is the id of an event record of the store.                              *)
C28_EventIdNamesStoredEvent ==
  \A i \in 1 .. Len(streams) :
    streams[i].event_id # None
    => \E e \in 1 .. Len(events) : events[e].id = streams[i].event_id

(* Two racing creates have inserted two events and one of the calls has    *)
(* pointed both streams at its event while the other call is in flight.    *)
C28_Witness ==
  /\ Len(events) = 2
  /\ Len(streams) = 2
  /\ streams[1].event_id # None
  /\ streams[1].event_id = streams[2].event_id
  /\ \E sid \in 1 .. 2 : cr[sid].pc = "update_many"

(* C29: when the handlers run one at a time, a non-null event_id of a      *)
(* stream is never replaced by another value.                              *)
C29_EventIdAssignedOnce ==
  [][ \A i \in 1 .. Len(streams) :
        streams[i].event_id # None
        => streams'[i].event_id = streams[i].event_id ]_vars

(* A stream joined, 10 minutes after the event was created, the event two  *)
(* older streams carry from the create path; all three carry it.           *)
C29_Witness ==
  /\ Len(streams) = 3
  /\ Len(events) = 1
  /\ \A i \in 1 .. 3 : streams[i].event_id = 1
  /\ events[1].created_at = streams[2].started_at
  /\ streams[3].started_at = events[1].created_at + 10
  /\ resp.event_id = 1

---------------------------------------------------------------------------
(* A join racing with the end of the event (SpecSeededC) *)

(* C23: under any interleaving of creates and ends, in every state in      *)
(* which no call is in flight, no live stream carries the event_id of an   *)
(* ended event.                                                            *)
C23_NoLiveStreamOnEndedEvent ==
  Quiescent
  => \A i \in 1 .. Len(streams) :
       (streams[i].status = "live" /\ streams[i].event_id # None)
       => events[streams[i].event_id].status # "ended"

---------------------------------------------------------------------------
(* mask_location (SpecMask) *)

(* C21: for every input coordinate and every draw, mask_location returns   *)
(* the input unchanged in mode exact, a point at most 100 m away (by       *)
(* haversine distance) in mode masked_100m and a point at most 1000 m away *)
(* in mode masked_1km.                                                     *)
C21_MaskWithinRadius ==
  resp.op = "mask_result"
  => /\ resp.mode = "exact" => (resp.out_lat = resp.lat /\ resp.out_lng = resp.lng)
     /\ resp.mode = "masked_100m"
          => MaskedDistanceCm(resp.lat, resp.lng, resp.mode, resp.rnd) <= 100 * 100
     /\ resp.mode = "masked_1km"
          => MaskedDistanceCm(resp.lat, resp.lng, resp.mode, resp.rnd) <= 1000 * 100

(* C27: the angle and the distance fraction are independent: whatever      *)
(* angle a call has drawn, every fraction 0 .. 999 thousandths can come    *)
(* with it, that is, some draw gives that angle and that fraction.         *)
C27_AngleAndFractionIndependent ==
  (resp.op = "mask_result" /\ resp.mode # "exact")
  => \A f \in 0 .. 999 :
       \E rnd \in 0 .. RndModulus - 1 :
         AngleDeg(rnd) = resp.angle /\ FractionMilli(rnd) = f

---------------------------------------------------------------------------
(* The centroid and the privacy modes (SpecP) *)

(* The live streams that reference event e in store S. *)
LiveReferencing(S, e) ==
  { i \in 1 .. Len(S) : S[i].status = "live" /\ S[i].event_id = e }

(* c is the mean of total over n values, to the microdegree. *)
IsMeanOf(c, total, n) == n > 0 /\ total - n * c > -n /\ total - n * c < n

(* C25: right after a create that is not interleaved with another handler  *)
(* and that creates or joins event E, the centroid_lat and centroid_lng of *)
(* E are the arithmetic mean of the stored raw lat and lng of exactly the  *)
(* live streams that reference E, whatever the privacy modes of the        *)
(* members are.                                                            *)
C25_CentroidIsMeanOfLiveMembers ==
  [][ (IsCreateStep /\ resp'.event_id # None) =>
        LET e == resp'.event_id
            m == LiveReferencing(streams', e)
        IN  /\ e \in 1 .. Len(events')
            /\ Len(streams') \in m
            /\ IsMeanOf(events'[e].centroid_lat, SumLat(streams', m), Cardinality(m))
            /\ IsMeanOf(events'[e].centroid_lng, SumLng(streams', m), Cardinality(m))
    ]_vars

(* A masked stream joined an event after one of its two founders, which    *)
(* had different coordinates, had ended: the centroid is the mean of the   *)
(* two live members and is not the mean of all three.                      *)
C25_Witness ==
  /\ Len(streams) = 3
  /\ Len(events) = 1
  /\ \A i \in 1 .. 3 : streams[i].event_id = 1
  /\ streams[1].status = "ended"
  /\ streams[2].status = "live"
  /\ streams[3].status = "live"
  /\ streams[1].lat # streams[2].lat
  /\ streams[3].lat = streams[2].lat
  /\ streams[2].privacy_mode = "masked_100m"
  /\ streams[3].privacy_mode = "masked_1km"
  /\ resp.event_id = 1
  /\ events[1].stream_count = 2
  /\ events[1].centroid_lat = streams[2].lat
  /\ events[1].centroid_lng = streams[2].lng

---------------------------------------------------------------------------
(* What no handler changes (SpecR) *)

(* C26: no operation (create, end, any query) changes the id, owner, lat,  *)
(* lng, started_at or privacy_mode of an existing stream, and none deletes *)
(* a stream or an event: the sets of stream ids and of event ids only      *)
(* grow.  Masking the coordinates in an answer never alters the stored     *)
(* coordinates.                                                            *)
C26_StoredIdentityIsFrozen ==
  [][ /\ Len(streams') >= Len(streams)
      /\ Len(events') >= Len(events)
      /\ \A i \in 1 .. Len(streams) :
           /\ streams'[i].id = streams[i].id
           /\ streams'[i].user_id = streams[i].user_id
           /\ streams'[i].lat = streams[i].lat
           /\ streams'[i].lng = streams[i].lng
           /\ streams'[i].started_at = streams[i].started_at
           /\ streams'[i].privacy_mode = streams[i].privacy_mode
      /\ \A e \in 1 .. Len(events) : events'[e].id = events[e].id
    ]_vars

(* The answer of get_live_streams shows a masked stream away from its      *)
(* stored coordinates, next to a stream of another owner that has ended    *)
(* at a later time than it started and is left out of the answer.          *)
C26_Witness ==
  /\ "op" \in DOMAIN resp
  /\ resp.op = "streams_live"
  /\ resp.code = StatusOk
  /\ Len(streams) = 2
  /\ streams[1].status = "ended"
  /\ streams[1].ended_at > streams[1].started_at
  /\ streams[1].user_id # streams[2].user_id
  /\ streams[2].privacy_mode = "masked_1km"
  /\ streams[2].lat = PlaceLat[2]
  /\ streams[2].lng = PlaceLng[2]
  /\ \E it \in resp.items :
       /\ it.id = 2
       /\ it.lat # streams[2].lat
       /\ it.lng # streams[2].lng
  /\ \A it \in resp.items : it.id # 1

=============================================================================
